---- MODULE Spec2Model ----
(***************************************************************************)
(* A model of scripts/benchmark_summary.py: the walk of the Criterion      *)
(* result tree (parse_criterion_results), the renderers (format_time,      *)
(* format_benchmark_name, build_aligned_table, calculate_speedup,          *)
(* build_comparison_table, build_summary_stats) and main with its archive  *)
(* directory.                                                              *)
(*                                                                         *)
(* A Python str is a sequence of one-character strings; "\n" is the line   *)
(* feed.  Three characters outside ASCII are written by name, each one     *)
(* element of a sequence: "micro" (U+00B5), "bolt" (U+26A1), "inf"         *)
(* (U+221E).  A call that may raise returns [exc, val]: exc is "none" and  *)
(* val the value, or exc names the exception.  Numbers are rationals n/d;  *)
(* the values drawn below are integers, as JSON integers are.              *)
(***************************************************************************)
EXTENDS Integers, Sequences, FiniteSets, TLC

VARIABLES
    tree,          \* target/criterion as the last call found it
    results,       \* what parse_criterion_results returned, as [exc, val]
    archive,       \* benches/archive: its entries, each [name, content]
    stdout,        \* standard output of the last run of main
    stderr,        \* its diagnostic on the error stream ("" when none)
    exit_status,   \* its exit status (-1 before any run)
    archive_path,  \* main's archive_path.name in the last run
    next_counter,  \* main's next_counter in the last run
    runs,          \* runs of main so far
    pc,            \* per concurrent invocation: "start", "scanned", "done"
    plan,          \* per concurrent invocation: its locals after the scan
    git_time,      \* calculate_speedup's arguments and its result
    helix_time,
    speedup,
    table_a,       \* two calls of build_aligned_table on the same results
    table_b,
    comparison     \* what build_comparison_table returned, as [exc, val]

vars == <<tree, results, archive, stdout, stderr, exit_status, archive_path,
          next_counter, runs, pc, plan, git_time, helix_time, speedup,
          table_a, table_b, comparison>>

mainVars == <<archive, stdout, stderr, exit_status, archive_path, next_counter, runs>>
raceVars == <<pc, plan>>
speedupVars == <<git_time, helix_time, speedup>>
tableVars == <<table_a, table_b>>

----------------------------------------------------------------------------
(* Outcomes of a call *)

Ok(v) == [exc |-> "none", val |-> v]
NoResult == [exc |-> "not called", val |-> <<>>]
Raise(e) == [exc |-> e, val |-> <<>>]

----------------------------------------------------------------------------
(* Characters and strings *)

DigitChars == <<"0", "1", "2", "3", "4", "5", "6", "7", "8", "9">>
LowerChars == <<"a", "b", "c", "d", "e", "f", "g", "h", "i", "j", "k", "l", "m",
                "n", "o", "p", "q", "r", "s", "t", "u", "v", "w", "x", "y", "z">>
UpperChars == <<"A", "B", "C", "D", "E", "F", "G", "H", "I", "J", "K", "L", "M",
                "N", "O", "P", "Q", "R", "S", "T", "U", "V", "W", "X", "Y", "Z">>

\* The characters the model's strings are compared on, in code point order.
Ascii == <<"\n", " ", "-", ".">> \o DigitChars \o UpperChars \o <<"_">> \o LowerChars

Range(s) == {s[i] : i \in DOMAIN s}
IndexOf(table, c) == CHOOSE i \in DOMAIN table : table[i] = c
Ord(c) == IndexOf(Ascii, c)

Min(S) == CHOOSE x \in S : \A y \in S : x <= y
Max(S) == CHOOSE x \in S : \A y \in S : y <= x

\* Python's < on str: by the first differing character, else by length.
StrLess(a, b) ==
    LET n == IF Len(a) < Len(b) THEN Len(a) ELSE Len(b)
        diff == {i \in 1..n : a[i] # b[i]}
    IN  IF diff = {} THEN Len(a) < Len(b)
        ELSE Ord(a[Min(diff)]) < Ord(b[Min(diff)])

startswith(s, prefix) ==
    /\ Len(prefix) <= Len(s)
    /\ SubSeq(s, 1, Len(prefix)) = prefix

endswith(s, suffix) ==
    /\ Len(suffix) <= Len(s)
    /\ SubSeq(s, Len(s) - Len(suffix) + 1, Len(s)) = suffix

Repeat(c, n) == [i \in 1..n |-> c]
ljust(s, w) == IF Len(s) >= w THEN s ELSE s \o Repeat(" ", w - Len(s))
rjust(s, w) == IF Len(s) >= w THEN s ELSE Repeat(" ", w - Len(s)) \o s

\* sep.join(parts)
RECURSIVE join(_, _)
join(sep, parts) ==
    IF parts = <<>> THEN <<>>
    ELSE IF Len(parts) = 1 THEN parts[1]
    ELSE parts[1] \o sep \o join(sep, Tail(parts))

\* str.rstrip(): the whitespace of the model's strings is " " and "\n".
rstrip(s) ==
    LET keep == {i \in DOMAIN s : s[i] \notin {" ", "\n"}}
    IN  IF keep = {} THEN <<>> ELSE SubSeq(s, 1, Max(keep))

\* str.isdigit() and int() on the ASCII digits.
isdigit(s) == Len(s) > 0 /\ \A i \in DOMAIN s : s[i] \in Range(DigitChars)

RECURSIVE int(_)
int(s) ==
    IF s = <<>> THEN 0
    ELSE 10 * int(SubSeq(s, 1, Len(s) - 1)) + (IndexOf(DigitChars, s[Len(s)]) - 1)

\* The decimal digits of a natural number.
RECURSIVE Digits(_)
Digits(n) ==
    IF n < 10 THEN <<DigitChars[n + 1]>>
    ELSE Digits(n \div 10) \o <<DigitChars[(n % 10) + 1]>>

\* Zero-padding to a minimum width, as the format spec 03d and the fraction
\* digits of .2f do.
PadZeros(ds, w) == IF Len(ds) >= w THEN ds ELSE Repeat("0", w - Len(ds)) \o ds
ZeroPad(n, w) == PadZeros(Digits(n), w)

----------------------------------------------------------------------------
(* Values: what json.load returns and what the arithmetic computes *)

Num(n, d) == [t |-> "num", n |-> n, d |-> d, f |-> <<>>]
Null == [t |-> "null", n |-> 0, d |-> 1, f |-> <<>>]
Str == [t |-> "str", n |-> 0, d |-> 1, f |-> <<>>]
List == [t |-> "list", n |-> 0, d |-> 1, f |-> <<>>]
Obj(fields) == [t |-> "obj", n |-> 0, d |-> 1, f |-> fields]

\* v[key] for a str key: KeyError on a mapping without it, TypeError on a
\* list, a str, a number or None.
Subscript(v, key) ==
    IF v.t = "obj"
    THEN IF key \in DOMAIN v.f THEN Ok(v.f[key]) ELSE Raise("KeyError")
    ELSE Raise("TypeError")

Pow10(k) == IF k = 0 THEN 1 ELSE IF k = 1 THEN 10 ELSE 100

\* The natural number n/d to the nearest integer, a tie to the even one.
RoundHalfEven(n, d) ==
    IF 2 * (n % d) < d THEN n \div d
    ELSE IF 2 * (n % d) > d THEN n \div d + 1
    ELSE IF (n \div d) % 2 = 0 THEN n \div d ELSE n \div d + 1

\* The digits of a / 10^k with k fraction digits.
FixedDigits(a, k) ==
    Digits(a \div Pow10(k))
    \o (IF k = 0 THEN <<>> ELSE <<".">> \o ZeroPad(a % Pow10(k), k))

\* f"{x:.kf}" of the number n/d, d > 0 and k in 0..2; a negative number
\* keeps its sign when it rounds to zero.  Python rounds the float that the
\* arithmetic produced: that is the rounding of n/d itself, but for a tie of
\* n/d that the float misses (0.05 is one), which the float's error decides;
\* the times of the model produce no such tie.
FormatFixed(n, d, k) ==
    IF n < 0 THEN <<"-">> \o FixedDigits(RoundHalfEven((-n) * Pow10(k), d), k)
    ELSE FixedDigits(RoundHalfEven(n * Pow10(k), d), k)

----------------------------------------------------------------------------
(* The benchmark families the builders look up *)

git_status_baseline == <<"g", "i", "t", "_", "s", "t", "a", "t", "u", "s", "_", "b", "a", "s", "e", "l", "i", "n", "e">>
helix_index_cached_run == <<"h", "e", "l", "i", "x", "_", "i", "n", "d", "e", "x", "_", "c", "a", "c", "h", "e", "d", "_", "r", "u", "n">>
helix_index_first_run == <<"h", "e", "l", "i", "x", "_", "i", "n", "d", "e", "x", "_", "f", "i", "r", "s", "t", "_", "r", "u", "n">>
query_staged == <<"q", "u", "e", "r", "y", "_", "s", "t", "a", "g", "e", "d">>
helix_index_open == <<"h", "e", "l", "i", "x", "_", "i", "n", "d", "e", "x", "_", "o", "p", "e", "n">>

----------------------------------------------------------------------------
(* format_time and format_benchmark_name *)

\* ns < limit, for the number ns = n/d and an integer limit.
Below(ns, limit) ==
    IF ns.n < 0 THEN TRUE ELSE ns.n \div ns.d < limit

\* The branch of format_time: the divisor, the fraction digits, the suffix.
time_unit(ns) ==
    IF Below(ns, 1000)
    THEN [scale |-> 1, digits |-> 0, suffix |-> <<" ", "n", "s">>]
    ELSE IF Below(ns, 1000000)
    THEN [scale |-> 1000, digits |-> 2, suffix |-> <<" ", "micro", "s">>]
    ELSE IF Below(ns, 1000000000)
    THEN [scale |-> 1000000, digits |-> 2, suffix |-> <<" ", "m", "s">>]
    ELSE [scale |-> 1000000000, digits |-> 2, suffix |-> <<" ", "s">>]

in_unit(ns, unit) == FormatFixed(ns.n, ns.d * unit.scale, unit.digits) \o unit.suffix

\* The comparison ns < 1000 raises TypeError on a str and on None.
format_time(ns) ==
    IF ns.t # "num" THEN Raise("TypeError") ELSE Ok(in_unit(ns, time_unit(ns)))

isalpha(c) == c \in Range(LowerChars) \cup Range(UpperChars)
upper(c) == IF c \in Range(LowerChars) THEN UpperChars[IndexOf(LowerChars, c)] ELSE c
lower(c) == IF c \in Range(UpperChars) THEN LowerChars[IndexOf(UpperChars, c)] ELSE c

\* str.title(): a letter after a non-letter is upper-cased, any other letter
\* lower-cased.
title(s) ==
    [i \in DOMAIN s |->
        IF ~isalpha(s[i]) THEN s[i]
        ELSE IF i = 1 \/ ~isalpha(s[i - 1]) THEN upper(s[i])
        ELSE lower(s[i])]

replacements ==
    << <<(<<"h", "e", "l", "i", "x", " ", "i", "n", "d", "e", "x">>),
         (<<"H", "e", "l", "i", "x", " ", "I", "n", "d", "e", "x">>)>>,
       <<(<<"g", "i", "t", " ", "s", "t", "a", "t", "u", "s">>),
         (<<"G", "i", "t", " ", "S", "t", "a", "t", "u", "s">>)>>,
       <<(<<"q", "u", "e", "r", "y", " ", "s", "t", "a", "g", "e", "d">>),
         (<<"Q", "u", "e", "r", "y", " ", "S", "t", "a", "g", "e", "d">>)>>,
       <<(<<"i", "n", "d", "e", "x", " ", "r", "e", "a", "d">>),
         (<<"I", "n", "d", "e", "x", " ", "R", "e", "a", "d">>)>> >>

\* The for loop of format_benchmark_name: the first entry that is a prefix
\* of display replaces its first occurrence, which is that prefix.
replace_prefix(display, hits) ==
    IF hits = {} THEN display
    ELSE replacements[Min(hits)][2]
         \o SubSeq(display, Len(replacements[Min(hits)][1]) + 1, Len(display))

first_replacement(display) ==
    replace_prefix(display, {k \in DOMAIN replacements : startswith(display, replacements[k][1])})

format_benchmark_name(name) ==
    title(first_replacement([i \in DOMAIN name |-> IF name[i] = "_" THEN " " ELSE name[i]]))

----------------------------------------------------------------------------
(* Orders *)

\* The sequences that enumerate the set S once each: the orders in which a
\* set or the keys of a dict may be iterated.
Orders(S) == {s \in [1..Cardinality(S) -> S] : Range(s) = S}

\* key=lambda x: int(x) if x.isdigit() else 0
param_key(x) == IF isdigit(x) THEN int(x) ELSE 0

\* x put after all of rest, whatever the keys.
append_last(rest, x) == Append(rest, x)

\* x put into the sorted sequence rest after every element whose key is not
\* greater.
insert_after(rest, x, k) == SubSeq(rest, 1, k) \o <<x>> \o SubSeq(rest, k + 1, Len(rest))

insert_by_key(rest, x) ==
    insert_after(rest, x,
                 Max({0} \cup {i \in DOMAIN rest : param_key(rest[i]) <= param_key(x)}))

\* sorted(seq, key=param_key): stable, so equal keys keep the order of seq.
RECURSIVE sorted_by_key(_)
sorted_by_key(seq) ==
    IF seq = <<>> THEN <<>>
    ELSE insert_by_key(sorted_by_key(SubSeq(seq, 1, Len(seq) - 1)), seq[Len(seq)])

\* sorted(S) for a set of str: the k-th is the one with k - 1 smaller ones.
sorted(S) ==
    [k \in 1..Cardinality(S) |->
        CHOOSE x \in S : Cardinality({y \in S : StrLess(y, x)}) = k - 1]

RECURSIVE Concat(_)
Concat(seqs) == IF seqs = <<>> THEN <<>> ELSE seqs[1] \o Concat(Tail(seqs))

\* dict.get(name, {})
Get(res, name) == IF name \in DOMAIN res THEN res[name] ELSE <<>>

\* The distinct parameter labels of a ResultSet.
Labels(res) == UNION {DOMAIN res[b] : b \in DOMAIN res}

----------------------------------------------------------------------------
(* build_aligned_table *)

\* One pipe-delimited line: cells padded to the widths, the first to the
\* left and, with right_values, the others to the right.
table_line(cells, widths, right_values) ==
    <<"|", " ">>
    \o join(<<" ", "|", " ">>,
            [i \in DOMAIN cells |->
                IF right_values /\ i > 1 THEN rjust(cells[i], widths[i])
                ELSE ljust(cells[i], widths[i])])
    \o <<" ", "|">>

separator_line(widths) ==
    <<"|">> \o join(<<"|">>, [i \in DOMAIN widths |-> Repeat("-", widths[i] + 2)]) \o <<"|">>

\* The width of each column: of its header and of every row's cell.  The
\* result is written out as a tuple (four columns at most).
column_widths(headers, rows) ==
    [i \in DOMAIN headers |->
        Max({Len(headers[i])} \cup {Len(rows[r][i]) : r \in DOMAIN rows})] \o <<>>

\* The header line, the separator, and a line for each of the rows shown.
table_lines(headers, col_widths, shown, right_values) ==
    <<table_line(headers, col_widths, FALSE), separator_line(col_widths)>>
    \o [r \in DOMAIN shown |-> table_line(shown[r], col_widths, right_values)]

\* Lines 104-116: a row for each benchmark, N/A where it has no such label.
aligned_rows(res, names, all_params) ==
    [r \in DOMAIN names |->
        <<format_benchmark_name(names[r])>>
        \o [c \in DOMAIN all_params |->
              IF all_params[c] \in DOMAIN res[names[r]]
              THEN format_time(res[names[r]][all_params[c]]).val
              ELSE <<"N", "/", "A">>]] \o <<>>

aligned_headers(all_params) ==
    <<(<<"B", "e", "n", "c", "h", "m", "a", "r", "k">>)>>
    \o [c \in DOMAIN all_params |-> all_params[c] \o <<" ", "f", "i", "l", "e", "s">>]

aligned_text(headers, rows) ==
    join(<<"\n">>, table_lines(headers, column_widths(headers, rows), rows, TRUE))

\* label_order is the order in which the set of distinct labels is iterated.
\* format_time raises on the first mean that is no number.
build_aligned_table(res, label_order) ==
    IF \E b \in DOMAIN res : \E p \in DOMAIN res[b] : format_time(res[b][p]).exc # "none"
    THEN Raise("TypeError")
    ELSE Ok(aligned_text(aligned_headers(sorted_by_key(label_order)),
                         aligned_rows(res, sorted(DOMAIN res), sorted_by_key(label_order))))

----------------------------------------------------------------------------
(* calculate_speedup *)

\* a / b for numbers with b # 0, the denominator kept positive.
Quot(a, b) ==
    IF a.d * b.n < 0 THEN Num(-(a.n * b.d), -(a.d * b.n))
    ELSE Num(a.n * b.d, a.d * b.n)

NumAdd(a, b) == Num(a.n * b.d + b.n * a.d, a.d * b.d)
NumOver(a, count) == Num(a.n, a.d * count)

\* f"{value:.1f}x faster" and f"{value:.1f}x slower"
annotation(value, word) == Ok(FormatFixed(value.n, value.d, 1) \o word)

\* Lines 162-167; 1/speedup raises ZeroDivisionError when speedup is 0.
speedup_text(ratio) ==
    IF ratio.n > ratio.d
    THEN annotation(ratio, <<"x", " ", "f", "a", "s", "t", "e", "r">>)
    ELSE IF ratio.n < ratio.d
    THEN IF ratio.n = 0 THEN Raise("ZeroDivisionError")
         ELSE annotation(Quot(Num(1, 1), ratio), <<"x", " ", "s", "l", "o", "w", "e", "r">>)
    ELSE Ok(<<"s", "a", "m", "e">>)

\* helix_time == 0 is False for a str and for None, and the division then
\* raises TypeError.
calculate_speedup(git, helix) ==
    IF helix.t = "num" /\ helix.n = 0 THEN Ok(<<"inf">>)
    ELSE IF git.t # "num" \/ helix.t # "num" THEN Raise("TypeError")
    ELSE speedup_text(Quot(git, helix))

----------------------------------------------------------------------------
(* build_comparison_table *)

\* The row of a Helix variant, from its speedup and its formatted time.
helix_cells(sp, ft, label, marker) ==
    IF sp.exc # "none" THEN Raise(sp.exc)
    ELSE IF ft.exc # "none" THEN Raise(ft.exc)
    ELSE Ok(<< <<label, ft.val, sp.val, marker>> >>)

\* Lines 200-213: the row of one Helix variant for one parameter, none when
\* the variant has no such parameter.
helix_row(variant, param, git, label, marker) ==
    IF param \notin DOMAIN variant THEN Ok(<<>>)
    ELSE helix_cells(calculate_speedup(git, variant[param]), format_time(variant[param]),
                     label, marker)

\* The rows of one parameter: the baseline's, the variants', the blank row.
group_rows(param, ft, first, cached) ==
    IF ft.exc # "none" THEN Raise(ft.exc)
    ELSE IF first.exc # "none" THEN first
    ELSE IF cached.exc # "none" THEN cached
    ELSE Ok(<< <<(<<"G", "i", "t", " ", "s", "t", "a", "t", "u", "s", " ", "(">>) \o param
                    \o <<" ", "f", "i", "l", "e", "s", ")">>,
                 ft.val, <<"-">>, <<"-">>>> >>
            \o first.val \o cached.val
            \o << <<(<<>>), (<<>>), (<<>>), (<<>>)>> >>)

\* Lines 188-215 for one parameter of the baseline.
comparison_group(res, param, git) ==
    group_rows(param, format_time(git),
               helix_row(Get(res, helix_index_first_run), param, git,
                         <<" ", " ", "H", "e", "l", "i", "x", " ", "(", "f", "i", "r", "s", "t", " ", "r", "u", "n", ")">>,
                         <<>>),
               helix_row(Get(res, helix_index_cached_run), param, git,
                         <<" ", " ", "H", "e", "l", "i", "x", " ", "(", "c", "a", "c", "h", "e", "d", ")">>,
                         <<"bolt">>))

\* The groups of all the parameters, each as [exc, val], in a tuple.
comparison_groups(res, all_params) ==
    [i \in DOMAIN all_params |->
        comparison_group(res, all_params[i], res[git_status_baseline][all_params[i]])] \o <<>>

comparison_headers ==
    <<(<<"O", "p", "e", "r", "a", "t", "i", "o", "n">>), (<<"T", "i", "m", "e">>),
      (<<"v", "s", " ", "G", "i", "t">>), (<<>>)>>

\* Lines 217-242: the widths are taken over all the rows, and the rows that
\* are all empty are left out.
comparison_lines(comparison_rows) ==
    <<(<<"#", "#", " ", "P", "e", "r", "f", "o", "r", "m", "a", "n", "c", "e", " ",
         "C", "o", "m", "p", "a", "r", "i", "s", "o", "n", "\n">>)>>
    \o table_lines(comparison_headers, column_widths(comparison_headers, comparison_rows),
                   SelectSeq(comparison_rows, LAMBDA row : \E i \in DOMAIN row : row[i] # <<>>),
                   FALSE)

\* The loop ends at the first parameter whose group raises.
comparison_text(groups, bad) ==
    IF bad # {} THEN Raise(groups[Min(bad)].exc)
    ELSE Ok(join(<<"\n">>, comparison_lines(Concat([i \in DOMAIN groups |-> groups[i].val]))))

comparison_of(groups) ==
    comparison_text(groups, {i \in DOMAIN groups : groups[i].exc # "none"})

\* key_order is the order of git_baseline.keys(), the dict's insertion order.
build_comparison_table(res, key_order) ==
    IF Get(res, git_status_baseline) = <<>> \/ Get(res, helix_index_cached_run) = <<>>
    THEN Ok(<<>>)
    ELSE comparison_of(comparison_groups(res, sorted_by_key(key_order)))

----------------------------------------------------------------------------
(* build_summary_stats *)

\* The sum of the numbers f[p], p in S.
RECURSIVE NumSum(_, _)
NumSum(S, f) ==
    IF S = {} THEN Num(0, 1)
    ELSE NumAdd(NumSum(S \ {CHOOSE q \in S : TRUE}, f), f[CHOOSE q \in S : TRUE])

\* sum(values) / len(values)
average(values) == NumOver(NumSum(DOMAIN values, values), Cardinality(DOMAIN values))

\* Lines 266-278: the ratios of the parameters both families have whose
\* cached time is positive.  helix_time > 0 raises TypeError on a str and on
\* None, the division on a git_time that is a str or None.
speedup_line(git_baseline, helix_cached, both, counted) ==
    IF \E p \in both : \/ helix_cached[p].t # "num"
                       \/ helix_cached[p].n > 0 /\ git_baseline[p].t # "num"
    THEN Raise("TypeError")
    ELSE IF counted = {} THEN Ok(<<>>)
    ELSE Ok(<< <<"*", "*", "A", "v", "e", "r", "a", "g", "e", " ", "s", "p", "e", "e", "d", "u", "p", " ",
                 "(", "c", "a", "c", "h", "e", "d", ")", ":", "*", "*", " ">>
               \o annotation(average([p \in counted |-> Quot(git_baseline[p], helix_cached[p])]),
                             <<"x", " ", "f", "a", "s", "t", "e", "r", " ", "t", "h", "a", "n", " ", "g", "i", "t">>).val >>)

cached_speedup_line(git_baseline, helix_cached) ==
    speedup_line(git_baseline, helix_cached, DOMAIN git_baseline \cap DOMAIN helix_cached,
                 {p \in DOMAIN git_baseline \cap DOMAIN helix_cached :
                    helix_cached[p].t = "num" /\ helix_cached[p].n > 0})

\* Lines 281-283 and 286-289: the mean of a family that is there; the sum
\* raises TypeError on a str and on None.
average_line(values, label) ==
    IF values = <<>> THEN Ok(<<>>)
    ELSE IF \E p \in DOMAIN values : values[p].t # "num" THEN Raise("TypeError")
    ELSE Ok(<<label \o format_time(average(values)).val>>)

summary_text(cached, query, load) ==
    IF cached.exc # "none" THEN cached
    ELSE IF query.exc # "none" THEN query
    ELSE IF load.exc # "none" THEN load
    ELSE Ok(join(<<"\n">>,
                 << <<"#", "#", " ", "S", "u", "m", "m", "a", "r", "y", " ", "S", "t", "a", "t", "i", "s", "t",
                      "i", "c", "s", "\n">> >>
                 \o cached.val \o query.val \o load.val))

build_summary_stats(res) ==
    IF Get(res, git_status_baseline) = <<>> \/ Get(res, helix_index_cached_run) = <<>>
    THEN Ok(<<>>)
    ELSE summary_text(
            cached_speedup_line(res[git_status_baseline], res[helix_index_cached_run]),
            average_line(Get(res, query_staged),
                         <<"*", "*", "A", "v", "e", "r", "a", "g", "e", " ", "q", "u", "e", "r", "y", " ",
                           "t", "i", "m", "e", ":", "*", "*", " ">>),
            average_line(Get(res, helix_index_open),
                         <<"*", "*", "A", "v", "e", "r", "a", "g", "e", " ", "i", "n", "d", "e", "x", " ",
                           "l", "o", "a", "d", " ", "t", "i", "m", "e", ":", "*", "*", " ">>))

----------------------------------------------------------------------------
(* The input tree *)

\* A parameter directory's new/estimates.json.
NoFile == [kind |-> "absent", data |-> Null]
BadJson == [kind |-> "invalid", data |-> Null]
Json(v) == [kind |-> "json", data |-> v]
Estimate(v) == Json(Obj([mean |-> Obj([point_estimate |-> v])]))

\* An entry of a directory: a plain file, or a directory.
PlainFile == [dir |-> FALSE, params |-> <<>>, leaf |-> NoFile]
BenchDir(params) == [dir |-> TRUE, params |-> params, leaf |-> NoFile]
ParamDir(leaf) == [dir |-> TRUE, params |-> <<>>, leaf |-> leaf]

NoRoot == [exists |-> FALSE, benches |-> <<>>]
Root(benches) == [exists |-> TRUE, benches |-> benches]

\* All functions from a subset of Keys to Values.
PartialFns(Keys, Values) == UNION {[K -> Values] : K \in SUBSET Keys}

----------------------------------------------------------------------------
(* parse_criterion_results *)

\* Lines 35-48 for one parameter directory whose estimates.json exists: the
\* body of the try.  "skip" is the continue of the except clause, any other
\* act but "record" the exception that leaves the function.
point_estimate_of(pe) ==
    IF pe.exc = "KeyError" THEN [act |-> "skip", val |-> Null]
    ELSE IF pe.exc # "none" THEN [act |-> pe.exc, val |-> Null]
    ELSE [act |-> "record", val |-> pe.val]

mean_of(mean) ==
    IF mean.exc = "KeyError" THEN [act |-> "skip", val |-> Null]
    ELSE IF mean.exc # "none" THEN [act |-> mean.exc, val |-> Null]
    ELSE point_estimate_of(Subscript(mean.val, "point_estimate"))

read_estimate(leaf) ==
    IF leaf.kind = "invalid" THEN [act |-> "skip", val |-> Null]
    ELSE mean_of(Subscript(leaf.data, "mean"))

\* Lines 26-33: the parameter directories of one benchmark directory whose
\* estimates.json is there.
read_params(bench) ==
    IF ~bench.dir THEN {}
    ELSE {p \in DOMAIN bench.params :
            bench.params[p].dir /\ bench.params[p].leaf.kind # "absent"}

\* What the try does at each estimates.json of the tree.
estimates(criterion_dir) ==
    [l \in UNION {{<<b, p>> : p \in read_params(criterion_dir.benches[b])} :
                    b \in DOMAIN criterion_dir.benches}
        |-> read_estimate(criterion_dir.benches[l[1]].params[l[2]].leaf)]

\* results[bench_name][param] = mean_ns, for the leaves that were recorded.
recorded(got, kept) ==
    [b \in {l[1] : l \in kept} |->
        [p \in {l[2] : l \in {k \in kept : k[1] = b}} |-> got[<<b, p>>].val]]

\* An exception that the except clause does not name leaves the function
\* from whichever leaf raises it first; TypeError is the only one the leaves
\* of the model raise, so the order of iterdir() does not show.
walk(got) ==
    IF \E l \in DOMAIN got : got[l].act \notin {"skip", "record"}
    THEN Raise("TypeError")
    ELSE Ok(recorded(got, {l \in DOMAIN got : got[l].act = "record"}))

parse_criterion_results(criterion_dir) == walk(estimates(criterion_dir))

----------------------------------------------------------------------------
(* main *)

\* date.today().isoformat(): the day under study.
Today == <<"2", "0", "2", "4", "-", "0", "1", "-", "0", "1">>

\* archive_dir.glob(f"{today_str}-*.md"): * matches any run of characters.
matches_today(name) ==
    /\ startswith(name, Today \o <<"-">>)
    /\ endswith(name, <<".", "m", "d">>)
    /\ Len(name) >= Len(Today) + 4

\* int(last_file.stem.split("-")[-1]): ValueError unless the text after the
\* last "-" of the stem is a decimal number.
counter_of(text) == IF isdigit(text) THEN Ok(int(text)) ELSE Raise("ValueError")

after_last_dash(stem) ==
    SubSeq(stem, Max({0} \cup {i \in DOMAIN stem : stem[i] = "-"}) + 1, Len(stem))

last_counter(name) == counter_of(after_last_dash(SubSeq(name, 1, Len(name) - 3)))

Later(a, b) == IF StrLess(a, b) THEN b ELSE a

\* The greatest of names[lo..hi] in the order of str.
RECURSIVE Greatest(_, _, _)
Greatest(names, lo, hi) ==
    IF lo = hi THEN names[lo]
    ELSE Later(Greatest(names, lo, (lo + hi) \div 2),
               Greatest(names, (lo + hi) \div 2 + 1, hi))

\* sorted(existing)[-1]: the paths share their parent, so they sort as their
\* names do, and the last of the sorted list is the greatest name.
last_file(existing) == Greatest(existing, 1, Len(existing))

\* f"{today_str}-{next_counter:03d}.md"
archive_name(counter) == Today \o <<"-">> \o ZeroPad(counter, 3) \o <<".", "m", "d">>

title_text == <<"#", " ", "H", "e", "l", "i", "x", " ", "B", "e", "n", "c", "h", "m", "a", "r", "k", " ",
                "R", "e", "s", "u", "l", "t", "s", "\n">>

\* print(s)
print(out, s) == out \o s \o <<"\n">>

\* The last print of main; the path is written relative to the repository.
confirmation(name) ==
    <<"\n", "W", "r", "o", "t", "e", " ", "a", "r", "c", "h", "i", "v", "e", " ", "t", "o", " ">>
    \o <<"b", "e", "n", "c", "h", "e", "s", "/", "a", "r", "c", "h", "i", "v", "e", "/">> \o name

\* A run that ends in sys.exit(1) or in an uncaught exception: status 1,
\* nothing written.
Exit1(diagnostic, printed) ==
    [exit_status |-> 1, stderr |-> diagnostic, report |-> printed, writes |-> FALSE,
     archive_path |-> <<>>, next_counter |-> 0, archive_content |-> <<>>]

\* Lines 327-334: the prints of the sections.
report_text(aligned_section, comparison_section, summary_section) ==
    print(print(<<>>, title_text), aligned_section)
    \o (IF comparison_section # <<>> THEN print(print(<<>>, <<>>), comparison_section) ELSE <<>>)
    \o (IF summary_section # <<>> THEN print(print(<<>>, <<>>), summary_section) ELSE <<>>)

\* Lines 353-359: the text of the archive file.
archive_text(aligned_section, comparison_section, summary_section) ==
    rstrip(join(<<"\n", "\n">>,
                <<title_text, aligned_section>>
                \o (IF comparison_section # <<>> THEN <<(<<"\n">> \o comparison_section)>> ELSE <<>>)
                \o (IF summary_section # <<>> THEN <<(<<"\n">> \o summary_section)>> ELSE <<>>)))
    \o <<"\n">>

\* Lines 342-351: the counter of the run, from the names the glob found.
choose_counter(existing) ==
    IF existing = <<>> THEN Ok(0) ELSE last_counter(last_file(existing))

\* Lines 336-359, once the sections are printed.
main_archive(report, content, last) ==
    IF last.exc # "none" THEN Exit1(last.exc, report)
    ELSE [exit_status |-> 0, stderr |-> "", report |-> report, writes |-> TRUE,
          archive_path |-> archive_name(last.val + 1), next_counter |-> last.val + 1,
          archive_content |-> content]

all_operations(table) ==
    <<"#", "#", " ", "A", "l", "l", " ", "O", "p", "e", "r", "a", "t", "i", "o", "n", "s", "\n", "\n">>
    \o table

\* Lines 320-359: an exception of a builder ends the run before any print.
main_sections(aligned, comparison_section, summary_section, entries) ==
    IF aligned.exc # "none" THEN Exit1(aligned.exc, <<>>)
    ELSE IF comparison_section.exc # "none" THEN Exit1(comparison_section.exc, <<>>)
    ELSE IF summary_section.exc # "none" THEN Exit1(summary_section.exc, <<>>)
    ELSE main_archive(
            report_text(all_operations(aligned.val), comparison_section.val, summary_section.val),
            archive_text(all_operations(aligned.val), comparison_section.val, summary_section.val),
            choose_counter(SelectSeq([i \in DOMAIN entries |-> entries[i].name], matches_today)))

\* Lines 313-323.
main_results(parsed, entries, label_order, key_order) ==
    IF parsed.exc # "none" THEN Exit1(parsed.exc, <<>>)
    ELSE IF parsed.val = <<>> THEN Exit1("Error: No benchmark results found.", <<>>)
    ELSE main_sections(build_aligned_table(parsed.val, label_order),
                       build_comparison_table(parsed.val, key_order),
                       build_summary_stats(parsed.val), entries)

\* Lines 301-359: main up to the open() of the archive file.  entries is the
\* archive directory as the glob finds it.
main(criterion_dir, entries, label_order, key_order) ==
    IF ~criterion_dir.exists
    THEN Exit1("Error: No criterion results found. Run 'cargo bench' first.", <<>>)
    ELSE main_results(parse_criterion_results(criterion_dir), entries, label_order, key_order)

\* A write that adds an entry whatever the directory holds, as the creation
\* of a file under a fresh name does.
add_file(entries, name, content) == Append(entries, [name |-> name, content |-> content])

\* Lines 361-362: open(archive_path, "w") truncates a file that is there and
\* creates one that is not.
write_file(entries, name, content) ==
    IF \E i \in DOMAIN entries : entries[i].name = name
    THEN [i \in DOMAIN entries |->
            IF entries[i].name = name THEN [name |-> name, content |-> content] ELSE entries[i]]
    ELSE Append(entries, [name |-> name, content |-> content])

\* The orders in which a run may meet the labels of the tree: of the set of
\* distinct labels, and of the keys of the baseline.
orders_of(criterion_dir, parsed, baseline_only) ==
    IF ~criterion_dir.exists \/ parsed.exc # "none" THEN {<<>>}
    ELSE IF baseline_only THEN Orders(DOMAIN Get(parsed.val, git_status_baseline))
    ELSE Orders(Labels(parsed.val))

LabelOrders(criterion_dir) ==
    orders_of(criterion_dir, parse_criterion_results(criterion_dir), FALSE)

KeyOrders(criterion_dir) ==
    orders_of(criterion_dir, parse_criterion_results(criterion_dir), TRUE)

\* The end of a run: the file written and the confirmation printed, or the
\* exit with nothing written.
Finish(t, run) ==
    /\ tree' = t
    /\ results' = IF t.exists THEN parse_criterion_results(t) ELSE NoResult
    /\ archive' = IF run.writes
                  THEN write_file(archive, run.archive_path, run.archive_content)
                  ELSE archive
    /\ stdout' = IF run.writes
                 THEN print(run.report, confirmation(run.archive_path))
                 ELSE run.report
    /\ stderr' = run.stderr
    /\ exit_status' = run.exit_status
    /\ archive_path' = run.archive_path
    /\ next_counter' = run.next_counter
    /\ runs' = runs + 1

\* One run of main on the tree t, start to exit.
RunMain(t) ==
    \E lo \in LabelOrders(t) : \E ko \in KeyOrders(t) :
        \E run \in {main(t, archive, lo, ko)} : Finish(t, run)

----------------------------------------------------------------------------
(* Names and bounds of the model *)

P9 == <<"9">>
P10 == <<"1", "0">>
P100 == <<"1", "0", "0">>
PX == <<"x">>
PY == <<"y">>

\* The largest mean drawn for a leaf of the walk, in hundreds of nanoseconds.
MaxMean == 2

\* What an estimates.json may hold.
Leaves ==
    {NoFile, BadJson,
     Json(Null), Json(Num(5, 1)), Json(Str), Json(List), Json(Obj(<<>>)),
     Json(Obj([mean |-> Null])), Json(Obj([mean |-> Num(5, 1)])),
     Json(Obj([mean |-> Str])), Json(Obj([mean |-> List])),
     Json(Obj([mean |-> Obj(<<>>)])),
     Estimate(Str), Estimate(Null), Estimate(Num(-3, 1))}
    \cup {Estimate(Num(100 * k, 1)) : k \in 0..MaxMean}

\* The trees over the given benchmark names, parameter labels and leaves,
\* the missing root among them.
Trees(bench_names, labels, leaves, files) ==
    {NoRoot} \cup
    {Root(b) : b \in PartialFns(bench_names,
                 files \cup
                 {BenchDir(p) : p \in PartialFns(labels, files \cup {ParamDir(l) : l \in leaves})})}

ParseTrees == Trees({git_status_baseline, helix_index_cached_run}, {P10, P100}, Leaves, {PlainFile})

\* The trees main is run on.
MainLeaves ==
    {BadJson, Json(List), Estimate(Str), Estimate(Num(0, 1)), Estimate(Num(100, 1)),
     Estimate(Num(1500, 1))}

MainTrees == Trees({git_status_baseline, helix_index_cached_run}, {P10, P100}, MainLeaves, {})

\* A tree with one baseline measurement and one cached measurement.
SampleTree(git, helix) ==
    Root((git_status_baseline :> BenchDir(P10 :> ParamDir(Estimate(Num(git, 1)))))
         @@ (helix_index_cached_run :> BenchDir(P10 :> ParamDir(Estimate(Num(helix, 1))))))

\* What a run on a sample tree writes.
SampleContent(git, helix) ==
    main(SampleTree(git, helix), <<>>, <<P10>>, <<P10>>).archive_content

\* The archive directory after k runs of today on a sample tree, with or
\* without an archive of the day before.
Yesterday == <<"2", "0", "2", "3", "-", "1", "2", "-", "3", "1", "-", "0", "0", "1", ".", "m", "d">>

ArchiveOf(k, day_before, content) ==
    (IF day_before THEN << [name |-> Yesterday, content |-> content] >> ELSE <<>>)
    \o [i \in 1..k |-> [name |-> archive_name(i), content |-> content]]

EarlierArchive(k, day_before) == ArchiveOf(k, day_before, SampleContent(100, 50))

\* Runs of today before the first state, and runs of main in a behaviour.
MaxEarlier == 2
MaxMainEarlier == 1
MaxMainRuns == 1
RunsBefore == 998
MaxRuns == 3

\* The trees of the successive runs: each run of them ends in a write.
ArchiveTrees == {SampleTree(100, 50), SampleTree(200, 50), SampleTree(200, 100)}

\* The two concurrent invocations and the trees they may find.
Procs == {"a", "b"}
RaceTrees == {NoRoot, SampleTree(100, 50), SampleTree(200, 50)}

\* The largest time handed to calculate_speedup.
MaxTime == 9

\* The ResultSets the builders are called on: families with any of the
\* labels, each mean 100 * k nanoseconds.
Family(labels, max) == PartialFns(labels, {Num(100 * k, 1) : k \in 0..max})

\* A ResultSet holds a benchmark only with at least one parameter.
ResultSetOf(families) ==
    [b \in {n \in DOMAIN families : families[n] # <<>>} |-> families[b]]

MaxCmpMean == 1

ComparisonResultSets ==
    {ResultSetOf((git_status_baseline :> g) @@ (helix_index_cached_run :> c)
                 @@ (helix_index_first_run :> f)) :
        g \in Family({P9, PX, PY}, MaxCmpMean),
        c \in Family({P9, PX}, MaxCmpMean),
        f \in Family({PX}, MaxCmpMean)}

MaxTableMean == 1

TableResultSets ==
    {ResultSetOf((git_status_baseline :> g) @@ (query_staged :> q)) :
        g \in Family({PX, PY, P10}, MaxTableMean),
        q \in Family({PX, P10}, MaxTableMean)}
    \ {<<>>}

----------------------------------------------------------------------------
(* Idle values of the variables a specification does not use *)

NoPlan == Exit1("not run", <<>>)

IdleTree == tree = NoRoot /\ results = NoResult

IdleMain ==
    /\ archive = <<>>
    /\ stdout = <<>>
    /\ stderr = ""
    /\ exit_status = -1
    /\ archive_path = <<>>
    /\ next_counter = 0
    /\ runs = 0

IdleRun ==
    /\ stdout = <<>>
    /\ stderr = ""
    /\ exit_status = -1
    /\ archive_path = <<>>
    /\ next_counter = 0
    /\ runs = 0

IdleRace == pc = <<>> /\ plan = <<>>
IdleSpeedup == git_time = 0 /\ helix_time = 0 /\ speedup = NoResult
IdleTable == table_a = NoResult /\ table_b = NoResult
IdleComparison == comparison = NoResult

----------------------------------------------------------------------------
(* The walk alone: a tree is drawn, parse_criterion_results is called *)

InitParse ==
    /\ tree \in {t \in ParseTrees : t.exists}
    /\ results = NoResult
    /\ IdleMain /\ IdleRace /\ IdleSpeedup /\ IdleTable /\ IdleComparison

Parse ==
    /\ results = NoResult
    /\ results' = parse_criterion_results(tree)
    /\ UNCHANGED <<tree, mainVars, raceVars, speedupVars, tableVars, comparison>>

NextParse == Parse

SpecParse == InitParse /\ [][NextParse]_vars

----------------------------------------------------------------------------
(* main, run on any tree, in an archive directory that earlier runs filled *)

InitMain ==
    /\ IdleTree /\ IdleRun
    /\ archive \in {EarlierArchive(k, FALSE) : k \in 0..MaxMainEarlier}
    /\ IdleRace /\ IdleSpeedup /\ IdleTable /\ IdleComparison

Main ==
    /\ runs < MaxMainRuns
    /\ \E t \in MainTrees : RunMain(t)
    /\ UNCHANGED <<raceVars, speedupVars, tableVars, comparison>>

NextMain == Main

SpecMain == InitMain /\ [][NextMain]_vars

----------------------------------------------------------------------------
(* Runs of main one after the other on one day *)

InitArchive ==
    /\ IdleTree /\ IdleRun
    /\ archive \in {EarlierArchive(k, y) : k \in {0, RunsBefore}, y \in BOOLEAN}
    /\ IdleRace /\ IdleSpeedup /\ IdleTable /\ IdleComparison

NextRun ==
    /\ runs < MaxRuns
    /\ \E t \in ArchiveTrees : RunMain(t)
    /\ UNCHANGED <<raceVars, speedupVars, tableVars, comparison>>

NextArchive == NextRun

SpecArchive == InitArchive /\ [][NextArchive]_vars

----------------------------------------------------------------------------
(* Two invocations of main at once: each scans the directory, then writes *)

InitRace ==
    /\ IdleTree /\ IdleRun
    /\ archive \in {EarlierArchive(k, FALSE) : k \in 0..MaxEarlier}
    /\ pc = [p \in Procs |-> "start"]
    /\ plan = [p \in Procs |-> NoPlan]
    /\ IdleSpeedup /\ IdleTable /\ IdleComparison

\* Lines 301-359 of the invocation p.
Scan(p) ==
    /\ pc[p] = "start"
    /\ \E t \in RaceTrees : \E lo \in LabelOrders(t) : \E ko \in KeyOrders(t) :
          \E run \in {main(t, archive, lo, ko)} :
              /\ plan' = [plan EXCEPT ![p] = run]
              /\ pc' = [pc EXCEPT ![p] = IF run.writes THEN "scanned" ELSE "done"]
    /\ UNCHANGED <<tree, results, mainVars, speedupVars, tableVars, comparison>>

\* Lines 361-364 of the invocation p.
Write(p) ==
    /\ pc[p] = "scanned"
    /\ archive' = write_file(archive, plan[p].archive_path, plan[p].archive_content)
    /\ pc' = [pc EXCEPT ![p] = "done"]
    /\ UNCHANGED <<tree, results, stdout, stderr, exit_status, archive_path, next_counter,
                   runs, plan, speedupVars, tableVars, comparison>>

NextRace == \E p \in Procs : Scan(p) \/ Write(p)

SpecRace == InitRace /\ [][NextRace]_vars

----------------------------------------------------------------------------
(* calculate_speedup on a pair of times *)

InitSpeedup ==
    /\ git_time \in 0..MaxTime
    /\ helix_time \in 0..MaxTime
    /\ speedup = NoResult
    /\ IdleTree /\ IdleMain /\ IdleRace /\ IdleTable /\ IdleComparison

Speedup ==
    /\ speedup = NoResult
    /\ speedup' = calculate_speedup(Num(git_time, 1), Num(helix_time, 1))
    /\ UNCHANGED <<tree, results, mainVars, raceVars, git_time, helix_time, tableVars, comparison>>

NextSpeedup == Speedup

SpecSpeedup == InitSpeedup /\ [][NextSpeedup]_vars

----------------------------------------------------------------------------
(* build_aligned_table, called twice on one ResultSet *)

InitTable ==
    /\ tree = NoRoot
    /\ results \in {Ok(r) : r \in TableResultSets}
    /\ IdleMain /\ IdleRace /\ IdleSpeedup /\ IdleTable /\ IdleComparison

\* Each call iterates the set of distinct labels in some order.
BuildTables ==
    /\ table_a = NoResult
    /\ \E first \in Orders(Labels(results.val)) : \E second \in Orders(Labels(results.val)) :
          /\ table_a' = build_aligned_table(results.val, first)
          /\ table_b' = build_aligned_table(results.val, second)
    /\ UNCHANGED <<tree, results, mainVars, raceVars, speedupVars, comparison>>

NextTable == BuildTables

SpecTable == InitTable /\ [][NextTable]_vars

----------------------------------------------------------------------------
(* build_comparison_table on a ResultSet *)

InitComparison ==
    /\ tree = NoRoot
    /\ results \in {Ok(r) : r \in ComparisonResultSets}
    /\ IdleMain /\ IdleRace /\ IdleSpeedup /\ IdleTable /\ IdleComparison

BuildComparison ==
    /\ comparison = NoResult
    /\ \E ko \in Orders(DOMAIN Get(results.val, git_status_baseline)) :
          comparison' = build_comparison_table(results.val, ko)
    /\ UNCHANGED <<tree, results, mainVars, raceVars, speedupVars, tableVars>>

NextComparison == BuildComparison

SpecComparison == InitComparison /\ [][NextComparison]_vars

----------------------------------------------------------------------------
(* Properties of the walk (SpecParse) *)

\* A leaf record that holds the mean point-estimate field.
HasPointEstimate(leaf) ==
    /\ leaf.kind = "json"
    /\ leaf.data.t = "obj"
    /\ "mean" \in DOMAIN leaf.data.f
    /\ leaf.data.f.mean.t = "obj"
    /\ "point_estimate" \in DOMAIN leaf.data.f.mean.f

\* The (benchmark, parameter) pairs of a tree whose leaf is well-formed.
WellFormedPairs(t) ==
    {l \in UNION {{<<b, p>> : p \in DOMAIN t.benches[b].params} : b \in DOMAIN t.benches} :
        /\ t.benches[l[1]].dir
        /\ t.benches[l[1]].params[l[2]].dir
        /\ HasPointEstimate(t.benches[l[1]].params[l[2]].leaf)}

\* The (benchmark, parameter) pairs of a ResultSet.
RecordedPairs(res) == UNION {{<<b, p>> : p \in DOMAIN res[b]} : b \in DOMAIN res}

\* C3: for a readable root the walk never raises, and it records exactly the
\* pairs whose leaf holds the mean point-estimate field: a leaf that is
\* absent, is no valid JSON, or lacks the field in any way is skipped.
C3_NeverRaises ==
    results # NoResult =>
        /\ results.exc = "none"
        /\ RecordedPairs(results.val) = WellFormedPairs(tree)

\* The walk left with a TypeError: some leaf holds JSON whose top-level
\* value, or whose "mean", is no mapping.
C3_TypeErrorEscapes ==
    /\ results.exc = "TypeError"
    /\ \E b \in DOMAIN tree.benches :
          /\ tree.benches[b].dir
          /\ \E p \in DOMAIN tree.benches[b].params :
                /\ tree.benches[b].params[p].dir
                /\ tree.benches[b].params[p].leaf.kind = "json"
                /\ ~HasPointEstimate(tree.benches[b].params[p].leaf)

\* C8: every entry the walk records has a numeric mean that is not negative.
C8_RecordedMeansValid ==
    results.exc = "none" =>
        \A l \in RecordedPairs(results.val) :
            /\ results.val[l[1]][l[2]].t = "num"
            /\ results.val[l[1]][l[2]].n >= 0

\* The walk recorded a mean that is a str, null, or a negative number.
C8_InvalidMeanRecorded ==
    /\ results.exc = "none"
    /\ \E l \in RecordedPairs(results.val) :
          \/ results.val[l[1]][l[2]].t # "num"
          \/ results.val[l[1]][l[2]].n < 0

----------------------------------------------------------------------------
(* Properties of one run of main (SpecMain) *)

\* The content of the entry called name.
FileContent(entries, name) ==
    entries[CHOOSE i \in DOMAIN entries : entries[i].name = name].content

\* Standard output before the confirmation line.
Printed == SubSeq(stdout, 1, Len(stdout) - Len(print(<<>>, confirmation(archive_path))))

\* C2: with the root absent, or with no entry recorded by the walk, a run
\* writes a diagnostic to the error stream, exits with status 1, prints no
\* report and leaves the archive directory as it was; every other run exits
\* with status 0.
C2_ExitStatus ==
    [][runs' = runs + 1 =>
          IF ~tree'.exists \/ (results'.exc = "none" /\ results'.val = <<>>)
          THEN /\ stderr' # ""
               /\ exit_status' = 1
               /\ stdout' = <<>>
               /\ archive' = archive
          ELSE exit_status' = 0]_vars

\* A run that recorded entries and yet ended with status 1.
C2_RecordedYetStatus1 ==
    /\ runs = 1
    /\ results.exc = "none" /\ results.val # <<>>
    /\ exit_status = 1

\* C5: the archive file holds what the run printed before the confirmation
\* line, the sections one blank line apart, with one newline at the end.
C5_ArchiveIsPrinted ==
    exit_status = 0 =>
        FileContent(archive, archive_path) = rstrip(Printed) \o <<"\n">>

\* A run whose archive file is not what it printed: the file has two blank
\* lines where standard output has one.
C5_ArchiveDiffers ==
    /\ exit_status = 0
    /\ FileContent(archive, archive_path) # rstrip(Printed) \o <<"\n">>
    /\ \E i \in 1..(Len(FileContent(archive, archive_path)) - 2) :
          SubSeq(FileContent(archive, archive_path), i, i + 2) = <<"\n", "\n", "\n">>
    /\ ~\E i \in 1..(Len(Printed) - 2) : SubSeq(Printed, i, i + 2) = <<"\n", "\n", "\n">>

----------------------------------------------------------------------------
(* Properties of successive runs (SpecArchive) *)

\* The counters of the archives of today in a directory.
TodayCounters(entries) ==
    {last_counter(entries[i].name).val : i \in {j \in DOMAIN entries : matches_today(entries[j].name)}}

\* C1: a run that succeeds writes to a name the directory did not hold, and
\* its counter is greater than the counter of every archive of the day that
\* is there, past 999 too.
C1_NeverOverwrites ==
    [][(runs' = runs + 1 /\ exit_status' = 0) =>
          /\ ~\E i \in DOMAIN archive : archive[i].name = archive_path'
          /\ \A c \in TodayCounters(archive) : next_counter' > c]_vars

\* Three runs that succeeded, and two files for them: the third run wrote
\* over the archive of the second.
C1_ThreeRunsTwoFiles ==
    /\ runs = 3
    /\ exit_status = 0
    /\ Cardinality({i \in DOMAIN archive : matches_today(archive[i].name)}) = RunsBefore + 2

\* C4: the counter a run chooses is 1 when the directory holds no archive
\* of today, and else the greatest of their counters plus one; the file is
\* called <date>-<counter, zero-padded to 3 digits>.md.
C4_CounterIsMaxPlusOne ==
    [][(runs' = runs + 1 /\ exit_status' = 0) =>
          /\ IF TodayCounters(archive) = {} THEN next_counter' = 1
             ELSE /\ next_counter' - 1 \in TodayCounters(archive)
                  /\ \A c \in TodayCounters(archive) : c <= next_counter' - 1
          /\ archive_path' = Today \o <<"-">> \o ZeroPad(next_counter', 3) \o <<".", "m", "d">>]_vars

\* The directory holds the archive 1000 of today, and the run chose the
\* counter 1000.
C4_CounterNotAboveMax ==
    /\ runs = 3
    /\ exit_status = 0
    /\ next_counter = RunsBefore + 2
    /\ Cardinality({i \in DOMAIN archive : matches_today(archive[i].name)}) = RunsBefore + 2
    /\ \A c \in TodayCounters(archive) : c <= next_counter

----------------------------------------------------------------------------
(* Properties of two concurrent invocations (SpecRace) *)

\* C10: two invocations that both scan before either writes choose the same
\* counter and the same file name; the write of the later one then replaces
\* the file of the earlier one, so the directory holds one archive for the
\* two runs.
C10_LaterWriteReplaces ==
    /\ [](\A p \in Procs : \A q \in Procs :
            (pc[p] = "scanned" /\ pc[q] = "scanned") =>
                /\ plan[p].next_counter = plan[q].next_counter
                /\ plan[p].archive_path = plan[q].archive_path)
    /\ [][\A p \in Procs : \A q \in Procs \ {p} :
            (/\ pc[p] = "scanned" /\ pc'[p] = "done"
             /\ pc[q] = "done" /\ plan[q].writes
             /\ plan[q].archive_path = plan[p].archive_path) =>
                /\ Len(archive') = Len(archive)
                /\ Len(archive') = plan[p].next_counter
                /\ FileContent(archive', plan[p].archive_path) = plan[p].archive_content]_vars

\* Both invocations are done, each chose the counter one above the archives
\* that were there and the same name, they wrote different reports, and the
\* directory holds one file for them, with the report of "b" in it.
C10_OneFileForTwoRuns ==
    /\ pc["a"] = "done" /\ pc["b"] = "done"
    /\ plan["a"].writes /\ plan["b"].writes
    /\ plan["a"].next_counter = plan["b"].next_counter
    /\ plan["a"].archive_path = plan["b"].archive_path
    /\ plan["a"].archive_content # plan["b"].archive_content
    /\ Len(archive) = plan["a"].next_counter
    /\ FileContent(archive, plan["a"].archive_path) = plan["b"].archive_content

----------------------------------------------------------------------------
(* Properties of calculate_speedup (SpecSpeedup) *)

\* C6: for times that are not negative calculate_speedup returns an
\* annotation and does not raise: the infinity sign exactly when the
\* candidate time is 0, "x faster" exactly when baseline > candidate > 0,
\* "x slower" exactly when baseline < candidate, "same" exactly when the two
\* are equal and not 0.
C6_AlwaysAnnotates ==
    speedup # NoResult =>
        /\ speedup.exc = "none"
        /\ speedup.val = <<"inf">> <=> helix_time = 0
        /\ endswith(speedup.val, <<"x", " ", "f", "a", "s", "t", "e", "r">>)
              <=> (git_time > helix_time /\ helix_time > 0)
        /\ endswith(speedup.val, <<"x", " ", "s", "l", "o", "w", "e", "r">>)
              <=> git_time < helix_time
        /\ speedup.val = <<"s", "a", "m", "e">> <=> (git_time = helix_time /\ git_time # 0)

\* A baseline time of 0 with a candidate time that is not: the call raised.
C6_ZeroBaselineRaises ==
    /\ git_time = 0 /\ helix_time > 0
    /\ speedup.exc = "ZeroDivisionError"

----------------------------------------------------------------------------
(* Properties of build_aligned_table (SpecTable) *)

\* C9: two calls of build_aligned_table on one ResultSet return the same
\* table, in whatever order each enumerates the set of distinct labels.
C9_SameTable == table_a # NoResult => table_a = table_b

\* Two calls on one ResultSet, both returned, with different tables.
C9_TablesDiffer ==
    /\ table_a.exc = "none" /\ table_b.exc = "none"
    /\ table_a.val # table_b.val
    /\ Len(table_a.val) = Len(table_b.val)

----------------------------------------------------------------------------
(* Properties of build_comparison_table (SpecComparison) *)

\* The positions in increasing order.
SortedCuts(C) ==
    [k \in 1..Cardinality(C) |-> CHOOSE i \in C : Cardinality({j \in C : j < i}) = k - 1]

Pieces(s, cuts) == [k \in 1..(Len(cuts) - 1) |-> SubSeq(s, cuts[k] + 1, cuts[k + 1] - 1)]

\* The pieces of s between the occurrences of the character c.
SplitOn(s, c) == Pieces(s, SortedCuts({0, Len(s) + 1} \cup {i \in DOMAIN s : s[i] = c}))

Trimmed(s, inked) == IF inked = {} THEN <<>> ELSE SubSeq(s, Min(inked), Max(inked))

\* s without the spaces at its ends.
Strip(s) == Trimmed(s, {i \in DOMAIN s : s[i] # " "})

\* The cells of a pipe-delimited line.
CellsOf(line) ==
    [k \in 1..(Len(SplitOn(line, "|")) - 2) |-> Strip(SplitOn(line, "|")[k + 1])]

\* The data rows of a rendered comparison table, cell by cell: the lines
\* after the title, the blank line, the header line and the separator.
DataRows(text) ==
    [r \in 1..(Len(SplitOn(text, "\n")) - 4) |-> CellsOf(SplitOn(text, "\n")[r + 4])]

IsAnnotation(cell) ==
    \/ cell = <<"inf">>
    \/ cell = <<"s", "a", "m", "e">>
    \/ endswith(cell, <<"x", " ", "f", "a", "s", "t", "e", "r">>)
    \/ endswith(cell, <<"x", " ", "s", "l", "o", "w", "e", "r">>)

\* What a data row is: its first cell, whether it carries a speedup
\* annotation or the dash, and its marker.
RowKind(cells) ==
    <<cells[1],
      IF cells[3] = <<"-">> THEN "dash" ELSE IF IsAnnotation(cells[3]) THEN "annotation" ELSE "other",
      cells[4]>>

BaselineKind(p) ==
    <<(<<"G", "i", "t", " ", "s", "t", "a", "t", "u", "s", " ", "(">> \o p
       \o <<" ", "f", "i", "l", "e", "s", ")">>), "dash", (<<"-">>)>>

FirstRunKind ==
    <<(<<"H", "e", "l", "i", "x", " ", "(", "f", "i", "r", "s", "t", " ", "r", "u", "n", ")">>),
      "annotation", (<<>>)>>

CachedKind ==
    <<(<<"H", "e", "l", "i", "x", " ", "(", "c", "a", "c", "h", "e", "d", ")">>),
      "annotation", (<<"bolt">>)>>

\* The rows of the parameters ps in turn: the baseline row, the first-run
\* row of a parameter in with_first, the cached row of one in with_cached.
GroupKinds(ps, with_first, with_cached) ==
    Concat([i \in DOMAIN ps |->
              <<BaselineKind(ps[i])>>
              \o (IF ps[i] \in with_first THEN <<FirstRunKind>> ELSE <<>>)
              \o (IF ps[i] \in with_cached THEN <<CachedKind>> ELSE <<>>)])

\* The orders of the parameters S by ascending number, a label that is no
\* number counting as 0.
Ascending(S) ==
    {ps \in Orders(S) :
        \A i \in DOMAIN ps : \A j \in DOMAIN ps :
            i < j => (IF isdigit(ps[i]) THEN int(ps[i]) ELSE 0)
                        <= (IF isdigit(ps[j]) THEN int(ps[j]) ELSE 0)}

\* A baseline time of 0 beside a first-run or cached time of the same
\* parameter that is not 0: calculate_speedup raises on the pair.
ZeroBaselinePair(res) ==
    \E p \in DOMAIN res[git_status_baseline] :
        /\ res[git_status_baseline][p].n = 0
        /\ \/ p \in DOMAIN Get(res, helix_index_first_run)
              /\ Get(res, helix_index_first_run)[p].n # 0
           \/ p \in DOMAIN Get(res, helix_index_cached_run)
              /\ Get(res, helix_index_cached_run)[p].n # 0

BothPresent(res) ==
    Get(res, git_status_baseline) # <<>> /\ Get(res, helix_index_cached_run) # <<>>

\* C7, as the code has it: with the baseline and the cached run both in the
\* ResultSet, build_comparison_table raises ZeroDivisionError when a
\* baseline time is 0 beside a first-run or cached time that is not, and
\* else emits, for each parameter of the baseline in ascending numeric
\* order, one baseline row, then a first-run row if and only if the first
\* run has the parameter, then a cached row with an annotation and the
\* marker if and only if the cached run has the parameter.
C7_RowsPerParameter ==
    (comparison # NoResult /\ BothPresent(results.val)) =>
        IF ZeroBaselinePair(results.val)
        THEN comparison.exc = "ZeroDivisionError"
        ELSE /\ comparison.exc = "none"
             /\ \E ps \in Ascending(DOMAIN results.val[git_status_baseline]) :
                   [r \in DOMAIN DataRows(comparison.val) |-> RowKind(DataRows(comparison.val)[r])]
                   = GroupKinds(ps, DOMAIN Get(results.val, helix_index_first_run),
                                DOMAIN results.val[helix_index_cached_run])

\* C7, as stated: whenever the table is built, every parameter of the
\* baseline has one cached row, so that the cached rows are as many as the
\* parameters of the baseline.
C7_OneCachedRowPerParameter ==
    (comparison.exc = "none" /\ BothPresent(results.val)) =>
        \E ps \in Ascending(DOMAIN results.val[git_status_baseline]) :
            [r \in DOMAIN DataRows(comparison.val) |-> RowKind(DataRows(comparison.val)[r])]
            = GroupKinds(ps, DOMAIN Get(results.val, helix_index_first_run),
                         DOMAIN results.val[git_status_baseline])

\* A table of three parameters, two of them tied at 0: the cached run
\* lacks one of them and has another, the first run has one.
C7_TableWithMissingCachedRow ==
    /\ comparison.exc = "none"
    /\ BothPresent(results.val)
    /\ DOMAIN results.val[git_status_baseline] = {P9, PX, PY}
    /\ DOMAIN results.val[helix_index_cached_run] = {P9, PX}
    /\ DOMAIN Get(results.val, helix_index_first_run) = {PX}
    /\ Len(DataRows(comparison.val)) = 6
    /\ Cardinality({r \in DOMAIN DataRows(comparison.val) :
                      RowKind(DataRows(comparison.val)[r]) = CachedKind}) = 2

----------------------------------------------------------------------------
====
